---- MODULE Spec2Model ----
(***************************************************************************)
(* rsys-cli: the live graph of CPU frequencies.                            *)
(*   src/src/cmd/graph/cpu.rs          CpuMonitor, CoreStat (the widget)   *)
(*   src/src/cmd/graph/events.rs       Events: input thread, ticker thread *)
(*   src/src/cmd/show/common/widget.rs single_widget_loop (the render loop)*)
(* Time is counted in whole seconds (f64 seconds in the program).          *)
(* DataSeries and Monitor (cmd/graph/common.rs) are not part of the        *)
(* sources at hand; their operations follow sections 4.1 and 4.2 of the    *)
(* specification.                                                          *)
(***************************************************************************)
EXTENDS Integers, Sequences, FiniteSets, TLC

\* ---------------------------------------------------------------- bounds
MaxCores == 2       \* cores reported by processor()
MinFreq  == 1       \* the two frequencies a core may report
MaxFreq  == 2
MaxTime  == 60      \* the clock stops here
TimeStep == 20      \* granularity of the clock
TickRate == 20      \* Config.tick_rate, in seconds
MaxKeys  == 2       \* keys typed on stdin
Overrun  == 5       \* the unit-time feed runs this long past the first window

\* ------------------------------------------------------ program constants
X_AXIS_MIN == 0                 \* X_AXIS.0
X_AXIS_MAX == 30                \* X_AXIS.1
F64_MAX    == 2000000000        \* Y_AXIS.0 = f64::MAX, above every reading
Y_AXIS_MAX == 0                 \* Y_AXIS.1
Y_MARGIN   == 100000            \* freq + 100_000.
ReadErr    == -1                \* Err(_) of Core::update

Freqs    == {MinFreq, MaxFreq}
Readings == Freqs \cup {ReadErr}
Keys     == {"q", "x"}
exit_key == "q"                 \* Config: exit_key = Key::Char('q')
None     == "None"

\* ------------------------------------------------- DataSeries (spec 4.1)
DataSeries_new == << >>
\* add(time, value): appends a sample
add(data, time, value) == Append(data, <<time, value>>)
\* pop(): removes the earliest sample (and returns it: Head(data))
pop(data) == Tail(data)
\* first(): the earliest sample, if any
first(data) == IF data = << >> THEN << >> ELSE <<Head(data)>>   \* Option

\* ---------------------------------------------------- Monitor (spec 4.2)
Monitor_new(x, y) == [x_axis |-> x, y_axis |-> y, total_time |-> 0]
add_time(mon, t) == [mon EXCEPT !.total_time = @ + t]
time(mon)  == mon.total_time
min_x(mon) == mon.x_axis[1]
max_x(mon) == mon.x_axis[2]
min_y(mon) == mon.y_axis[1]
max_y(mon) == mon.y_axis[2]
inc_x_axis(mon, n) == [mon EXCEPT !.x_axis = <<@[1] + n, @[2] + n>>]
set_if_y_max(mon, y) == IF y > max_y(mon) THEN [mon EXCEPT !.y_axis[2] = y] ELSE mon
set_if_y_min(mon, y) == IF y < min_y(mon) THEN [mon EXCEPT !.y_axis[1] = y] ELSE mon

\* ------------------------------------------------------------- CoreStat
\* CoreStat::from_core: an empty series; cur_freq as processor() read it
from_core(freq) == [data |-> DataSeries_new, cur_freq |-> freq]
\* CoreStat::update: Core::update stores the new frequency, or fails
CoreStat_update(core, reading) ==
    IF reading = ReadErr
    THEN [ok |-> FALSE, core |-> core, freq |-> ReadErr]
    ELSE [ok |-> TRUE, core |-> [core EXCEPT !.cur_freq = reading], freq |-> reading]
\* (variant: the sample is put in front)
add_current_front(core, t) == [core EXCEPT !.data = <<<<t, core.cur_freq>>>> \o @]
\* CoreStat::add_current
add_current(core, t) == [core EXCEPT !.data = add(@, t, core.cur_freq)]

\* ----------------------------------------------------------- CpuMonitor
\* (variant: the bounds are assigned, not extended)
ExtendYUnconditional(mon, freq) ==
    [mon EXCEPT !.y_axis = <<freq + Y_MARGIN, freq + Y_MARGIN>>]
\* the two calls on the monitor in the body of the loop over the cores
ExtendY(mon, freq) ==
    set_if_y_min(set_if_y_max(mon, freq + Y_MARGIN), freq + Y_MARGIN)

\* (variant: every core is stamped with a clock reading of its own)
RECURSIVE UpdateCoresOwnClock(_, _, _, _, _)
UpdateCoresOwnClock(stats, mon, elapsed, readings, i) ==
    IF i > Len(stats) THEN [stats |-> stats, m |-> mon, panicked |-> FALSE]
    ELSE LET r == CoreStat_update(stats[i], readings[i]) IN
         IF ~r.ok THEN [stats |-> stats, m |-> mon, panicked |-> TRUE]
         ELSE UpdateCoresOwnClock([stats EXCEPT ![i] = add_current(r.core, elapsed)],
                                  ExtendY(mon, r.freq), elapsed + 1, readings, i + 1)
\* the loop over self.stats, from core i on; stops at the first failed
\* read (unwrap panics), leaving the cores before it updated
RECURSIVE UpdateCores(_, _, _, _, _)
UpdateCores(stats, mon, elapsed, readings, i) ==
    IF i > Len(stats) THEN [stats |-> stats, m |-> mon, panicked |-> FALSE]
    ELSE LET r == CoreStat_update(stats[i], readings[i]) IN
         IF ~r.ok THEN [stats |-> stats, m |-> mon, panicked |-> TRUE]
         ELSE UpdateCores([stats EXCEPT ![i] = add_current(r.core, elapsed)],
                          ExtendY(mon, r.freq), elapsed, readings, i + 1)

\* (variant: only the reference series is popped)
ScrollKeepOthers(stats, mon) ==
    IF time(mon) > max_x(mon)
    THEN LET removed == Head(stats[1].data)
             rest    == pop(stats[1].data)
             point   == first(rest)
         IN [stats |-> [stats EXCEPT ![1].data = rest],
             m     |-> IF point # << >> THEN inc_x_axis(mon, point[1][1] - removed[1]) ELSE mon]
    ELSE [stats |-> stats, m |-> mon]
\* (variant: only the lower x bound moves)
ScrollShiftMinOnly(stats, mon) ==
    IF time(mon) > max_x(mon)
    THEN LET removed == Head(stats[1].data)
             rest    == pop(stats[1].data)
             point   == first(rest)
         IN [stats |-> [i \in 1..Len(stats) |-> [stats[i] EXCEPT !.data = pop(@)]],
             m     |-> IF point # << >>
                       THEN [mon EXCEPT !.x_axis[1] = @ + (point[1][1] - removed[1])]
                       ELSE mon]
    ELSE [stats |-> stats, m |-> mon]
\* (variant: the scroll starts when the time reaches the end, not after)
ScrollAtEnd(stats, mon) ==
    IF time(mon) >= max_x(mon)
    THEN LET removed == Head(stats[1].data)
             rest    == pop(stats[1].data)
             point   == first(rest)
         IN [stats |-> [i \in 1..Len(stats) |-> [stats[i] EXCEPT !.data = pop(@)]],
             m     |-> IF point # << >> THEN inc_x_axis(mon, point[1][1] - removed[1]) ELSE mon]
    ELSE [stats |-> stats, m |-> mon]
\* "Move x axis if time reached end"
Scroll(stats, mon) ==
    IF time(mon) > max_x(mon)
    THEN LET removed == Head(stats[1].data)
             rest    == pop(stats[1].data)
             point   == first(rest)
         IN [stats |-> [i \in 1..Len(stats) |->
                          IF i = 1 THEN [stats[1] EXCEPT !.data = rest]
                          ELSE [stats[i] EXCEPT !.data = pop(@)]],
             m     |-> IF point # << >> THEN inc_x_axis(mon, point[1][1] - removed[1]) ELSE mon]
    ELSE [stats |-> stats, m |-> mon]

\* the scroll would pop a series that holds no sample
ScrollUnderflow(stats, mon) ==
    time(mon) > max_x(mon) /\ \E i \in 1..Len(stats) : stats[i].data = << >>
\* update() left by a panic: of a failed read, or of a pop of an empty series
Panicked(stats, mon, last, empty) ==
    [stats |-> stats, m |-> mon, last_time |-> last, panicked |-> TRUE,
     evicted |-> [i \in 1..Len(stats) |-> 0], pop_empty |-> empty, shifted |-> 0,
     removed |-> -1]
\* (variant: the scroll comes before the samples are added)
update_scroll_first(stats, mon, start, last, t, dur, readings) ==
    LET elapsed == t - start
        m1      == add_time(mon, t - last)
    IN IF ScrollUnderflow(stats, m1) THEN Panicked(stats, m1, last, TRUE)
       ELSE LET s == Scroll(stats, m1)
                c == UpdateCores(s.stats, s.m, elapsed, readings, 1)
            IN IF c.panicked THEN Panicked(c.stats, c.m, last, FALSE)
               ELSE [stats |-> c.stats, m |-> c.m, last_time |-> t + dur,
                     panicked |-> FALSE,
                     evicted |-> [i \in 1..Len(stats) |->
                                    Len(stats[i].data) - Len(s.stats[i].data)],
                     pop_empty |-> FALSE, shifted |-> min_x(s.m) - min_x(m1),
                     removed |-> IF time(m1) > max_x(m1) THEN Head(stats[1].data)[1] ELSE -1]
\* CpuMonitor::update, called at time t; the reads of the cores take dur
update(stats, mon, start, last, t, dur, readings) ==
    LET elapsed == t - start
        m1      == add_time(mon, t - last)
        c       == UpdateCores(stats, m1, elapsed, readings, 1)
    IN IF c.panicked THEN Panicked(c.stats, c.m, last, FALSE)
       ELSE IF ScrollUnderflow(c.stats, c.m) THEN Panicked(c.stats, c.m, last, TRUE)
       ELSE LET s == Scroll(c.stats, c.m)
            IN [stats |-> s.stats, m |-> s.m, last_time |-> t + dur, panicked |-> FALSE,
                evicted |-> [i \in 1..Len(stats) |->
                               Len(c.stats[i].data) - Len(s.stats[i].data)],
                pop_empty |-> FALSE, shifted |-> min_x(s.m) - min_x(c.m),
                removed |-> IF time(c.m) > max_x(c.m) THEN Head(c.stats[1].data)[1] ELSE -1]

\* --------------------------------------------------------------- Events
Tick     == [type |-> "Tick", key |-> None]
Input(k) == [type |-> "Input", key |-> k]
\* tx.send: the channel keeps the events in the order of the sends
send(q, e) == Append(q, e)
\* (variant: a receive that prefers Ticks)
next_index_ticks_first(q) ==
    IF \E i \in 1..Len(q) : q[i].type = "Tick"
    THEN CHOOSE i \in 1..Len(q) : q[i].type = "Tick" /\ \A j \in 1..(i - 1) : q[j].type # "Tick"
    ELSE 1
\* Events::next: rx.recv() takes the event sent first
next_index(q) == 1
\* (variant: the input thread keeps the exit key to itself)
forward_unless_exit(q, k) == IF k = exit_key THEN q ELSE send(q, Input(k))
\* the input thread: tx.send(Event::Input(key))
forward(q, k) == send(q, Input(k))
\* (variant: the input thread reads on after the exit key)
input_keep_reading(k) == "reading"
\* the input thread after a send: if key == config.exit_key { return; }
input_after_send(k) == IF k = exit_key THEN "returned" ELSE "reading"
\* (variant: a ticker that sends again at once)
ticker_no_sleep(ok) == IF ok THEN "send" ELSE "exited"
\* (variant: a ticker that sends one Tick and exits)
ticker_once(ok) == "exited"
\* the ticker after tx.send(Event::Tick): break on an error, sleep otherwise
ticker_after_send(ok) == IF ok THEN "sleep" ELSE "exited"
\* (variant: a ticker that does not sleep)
sleep_none(t) == t
\* the ticker: thread::sleep(config.tick_rate) after a send at time t
sleep_until(t) == t + TickRate

\* --------------------------------------------------- single_widget_loop
\* (variant: no break on the exit key)
on_input_no_break(key) == "draw"
\* the match arm for Event::Input
on_input(key) == IF key = exit_key THEN "terminated" ELSE "draw"
\* the match arm for Event::Tick, given the result of widget.update()
on_tick(msg, res) == IF res = "err" THEN "Failed to update" ELSE msg

VARIABLES
    now,            \* the clock (Instant::now())
    widget,         \* the W of single_widget_loop: "cpu" or "other"
    stats, m, start_time, last_time,        \* CpuMonitor
    queue,          \* the mpsc channel
    input_pc,       \* input thread: "reading" or "returned"
    keys_typed,     \* keys the input thread has read
    ticker_pc,      \* ticker thread: "send", "sleep" or "exited"
    wake,           \* end of the ticker's sleep
    pc,             \* single_widget_loop: "draw", "next", "terminated" (Ok),
                    \* "error" (Err returned by ?), "panicked" (unwrap)
    err_msg,        \* Option<String>
    overlay,        \* the last draw showed the error popup
    \* history, for the properties
    handled,        \* event next() returned in this iteration: "none", "input", "tick"
    lastUpdate,     \* update() of the Tick of this iteration: "none" (no Tick),
                    \* "ok", "err", "panic"
    seriesChanged,  \* that update() changed the samples of some series
    evicted,        \* samples its scroll removed, per series
    exitSeen,       \* next() has returned Input(exit_key)
    afterExit,      \* a draw or an update() happened after that
    inflight,       \* events sent and not yet returned by next(), in the order sent
    orderOk,        \* every event returned by next() was the earliest one in flight
    lastTickSend,   \* time of the last Tick sent
    sendSpacing,    \* "none": fewer than two Ticks sent; "short": two consecutive
                    \* Ticks were sent less than tick_rate apart; "ok" otherwise
    lastTickRecv,   \* time next() last returned a Tick
    recvSpacing,    \* the same for the Ticks returned by next()
    input_why,      \* why the input thread returned: "none" (it has not), "eof",
                    \* "send_failed", "exit_key"
    keys_sent,      \* keys the input thread has sent as Input
    popEmpty,       \* the last update() popped an empty series
    shifted,        \* how far the last update() moved the x axis
    removedAt       \* the time of the sample the last update() removed from
                    \* the reference series; -1 if it removed none

wvars == <<stats, m, start_time, last_time>>
ivars == <<input_why, keys_sent>>
uvars == <<popEmpty, shifted, removedAt>>
hvars == <<handled, lastUpdate, seriesChanged, evicted, exitSeen, afterExit, inflight, orderOk, lastTickSend,
           sendSpacing, lastTickRecv, recvSpacing>>
vars  == <<now, widget, stats, m, start_time, last_time, queue, input_pc, keys_typed,
           ticker_pc, wake, pc, err_msg, overlay, handled, lastUpdate, seriesChanged,
           evicted, exitSeen, afterExit, inflight, orderOk, lastTickSend, sendSpacing, lastTickRecv,
           recvSpacing, input_why, keys_sent, popEmpty, shifted, removedAt>>

Running   == pc \in {"draw", "next"}
RxDropped == ~Running           \* Events is dropped when the loop function is left
SendersGone == input_pc = "returned" /\ ticker_pc = "exited"
Datas(st) == [i \in 1..Len(st) |-> st[i].data]
NoEviction(st) == [i \in 1..Len(st) |-> 0]
Spacing(old, last, t) ==
    IF last < 0 THEN old
    ELSE IF t - last < TickRate \/ old = "short" THEN "short" ELSE "ok"

\* CpuMonitor::new with n cores, and the start of single_widget_loop
InitWith(w, n, inp) ==
    /\ now = 0
    /\ widget = w
    /\ stats = [i \in 1..n |-> from_core(MinFreq)]
    /\ m = Monitor_new(<<X_AXIS_MIN, X_AXIS_MAX>>, <<F64_MAX, Y_AXIS_MAX>>)
    /\ start_time = 0
    /\ last_time = 0
    /\ queue = << >>
    /\ input_pc = inp
    /\ keys_typed = 0
    /\ ticker_pc = "send"
    /\ wake = 0
    /\ pc = "draw"
    /\ err_msg = None
    /\ overlay = FALSE
    /\ handled = "none"
    /\ lastUpdate = "none"
    /\ seriesChanged = FALSE
    /\ evicted = NoEviction(stats)
    /\ exitSeen = FALSE
    /\ afterExit = FALSE
    /\ inflight = << >>
    /\ orderOk = TRUE
    /\ lastTickSend = -1
    /\ sendSpacing = "none"
    /\ lastTickRecv = -1
    /\ recvSpacing = "none"
    /\ input_why = IF inp = "returned" THEN "eof" ELSE "none"
    /\ keys_sent = 0
    /\ popEmpty = FALSE
    /\ shifted = 0
    /\ removedAt = -1

\* the loop over a CpuMonitor of one core, or over any other StatefulWidget
\* (widgets of several cores: SpecWidget below)
Init == \/ InitWith("cpu", 1, "reading")
        \/ InitWith("other", 1, "reading")

\* time passes
Advance ==
    /\ now + TimeStep <= MaxTime
    /\ now' = now + TimeStep
    /\ UNCHANGED <<widget, wvars, queue, input_pc, keys_typed, ticker_pc, wake, pc,
                   err_msg, overlay, hvars, ivars, uvars>>

\* input thread: stdin.keys() yields Ok(k)
InputKey(k) ==
    /\ input_pc = "reading"
    /\ keys_typed < MaxKeys
    /\ keys_typed' = keys_typed + 1
    /\ IF RxDropped
       THEN \* tx.send fails: return
            /\ input_pc' = "returned"
            /\ input_why' = "send_failed"
            /\ UNCHANGED <<queue, inflight, keys_sent>>
       ELSE /\ queue' = forward(queue, k)
            /\ inflight' = IF queue' = queue THEN inflight ELSE Append(inflight, Input(k))
            /\ keys_sent' = keys_sent + (Len(queue') - Len(queue))
            /\ input_pc' = input_after_send(k)
            /\ input_why' = IF input_pc' = "returned" THEN "exit_key" ELSE "none"
    /\ UNCHANGED <<now, widget, wvars, ticker_pc, wake, pc, err_msg, overlay, handled,
                   lastUpdate, seriesChanged, evicted, exitSeen, afterExit, orderOk, lastTickSend, sendSpacing,
                   lastTickRecv, recvSpacing, uvars>>

\* input thread: stdin.keys() ends
InputEnd ==
    /\ input_pc = "reading"
    /\ input_pc' = "returned"
    /\ input_why' = "eof"
    /\ UNCHANGED <<now, widget, wvars, queue, keys_typed, ticker_pc, wake, pc, err_msg,
                   overlay, hvars, keys_sent, uvars>>

\* ticker thread: tx.send(Event::Tick), then thread::sleep
TickerSend ==
    /\ ticker_pc = "send"
    /\ IF RxDropped
       THEN /\ ticker_pc' = ticker_after_send(FALSE)
            /\ UNCHANGED <<queue, inflight, wake, lastTickSend, sendSpacing>>
       ELSE /\ queue' = send(queue, Tick)
            /\ inflight' = Append(inflight, Tick)
            /\ ticker_pc' = ticker_after_send(TRUE)
            /\ wake' = sleep_until(now)
            /\ lastTickSend' = now
            /\ sendSpacing' = Spacing(sendSpacing, lastTickSend, now)
    /\ UNCHANGED <<now, widget, wvars, input_pc, keys_typed, pc, err_msg, overlay,
                   handled, lastUpdate, seriesChanged, evicted, exitSeen, afterExit, orderOk,
                   ivars, uvars, lastTickRecv,
                   recvSpacing>>

\* ticker thread: the sleep is over
TickerWake ==
    /\ ticker_pc = "sleep"
    /\ now >= wake
    /\ ticker_pc' = "send"
    /\ UNCHANGED <<now, widget, wvars, queue, input_pc, keys_typed, wake, pc, err_msg,
                   overlay, hvars, ivars, uvars>>

\* terminal.draw(..)?
Draw ==
    /\ pc = "draw"
    /\ \E io_ok \in BOOLEAN :
         IF io_ok
         THEN /\ pc' = "next"
              /\ overlay' = (err_msg # None)
         ELSE /\ pc' = "error"
              /\ UNCHANGED overlay
    /\ afterExit' = (afterExit \/ exitSeen)
    /\ handled' = "none"
    /\ lastUpdate' = "none"
    /\ seriesChanged' = FALSE
    /\ evicted' = NoEviction(stats)
    /\ popEmpty' = FALSE
    /\ shifted' = 0
    /\ removedAt' = -1
    /\ UNCHANGED <<now, widget, wvars, queue, input_pc, keys_typed, ticker_pc, wake,
                   err_msg, exitSeen, inflight, ivars, orderOk, lastTickSend, sendSpacing,
                   lastTickRecv, recvSpacing>>

Remove(q, i) == SubSeq(q, 1, i - 1) \o SubSeq(q, i + 1, Len(q))
RECURSIVE IndexOf(_, _, _)
IndexOf(q, e, i) == IF q[i] = e THEN i ELSE IndexOf(q, e, i + 1)

\* events.next()? and the match on the event, widget.update() included
LoopNext ==
    /\ pc = "next"
    /\ IF queue = << >>
       THEN \* recv() fails once every sender is gone; it blocks otherwise
            /\ SendersGone
            /\ pc' = "error"
            /\ UNCHANGED <<now, wvars, queue, err_msg, handled, lastUpdate, seriesChanged,
                           evicted, exitSeen, afterExit, inflight, orderOk, lastTickRecv,
                           recvSpacing, uvars>>
       ELSE LET i == next_index(queue)
                e == queue[i]
            IN /\ queue' = Remove(queue, i)
               /\ inflight' = Remove(inflight, IndexOf(inflight, e, 1))
               /\ orderOk' = (orderOk /\ e = Head(inflight))
               /\ IF e.type = "Input"
                  THEN /\ pc' = on_input(e.key)
                       /\ handled' = "input"
                       /\ exitSeen' = (exitSeen \/ e.key = exit_key)
                       /\ UNCHANGED <<now, wvars, afterExit, err_msg, lastUpdate, seriesChanged,
                                      evicted, lastTickRecv, recvSpacing, uvars>>
                  ELSE /\ handled' = "tick"
                       /\ afterExit' = (afterExit \/ exitSeen)
                       /\ lastTickRecv' = now
                       /\ recvSpacing' = Spacing(recvSpacing, lastTickRecv, now)
                       /\ UNCHANGED exitSeen
                       /\ IF widget = "cpu"
                          THEN \E readings \in [1..Len(stats) -> Readings] :
                               \E dur \in {d \in {0, TimeStep} : now + d <= MaxTime} :
                                 LET u == update(stats, m, start_time, last_time, now, dur,
                                                 readings)
                                 IN /\ stats' = u.stats
                                    /\ m' = u.m
                                    /\ last_time' = u.last_time
                                    /\ evicted' = u.evicted
                                    /\ popEmpty' = u.pop_empty
                                    /\ shifted' = u.shifted
                                    /\ removedAt' = u.removed
                                    /\ seriesChanged' = (Datas(u.stats) # Datas(stats))
                                    /\ now' = IF u.panicked THEN now ELSE now + dur
                                    /\ lastUpdate' = IF u.panicked THEN "panic" ELSE "ok"
                                    /\ pc' = IF u.panicked THEN "panicked" ELSE "draw"
                                    /\ err_msg' = on_tick(err_msg, "ok")
                                    /\ UNCHANGED start_time
                          ELSE \* any other StatefulWidget: update() is Ok(()) or Err(e)
                               \E res \in {"ok", "err"} :
                                 /\ lastUpdate' = res
                                 /\ err_msg' = on_tick(err_msg, res)
                                 /\ pc' = "draw"
                                 /\ UNCHANGED <<now, wvars, seriesChanged, evicted, uvars>>
    /\ UNCHANGED <<widget, input_pc, keys_typed, ticker_pc, wake, overlay, lastTickSend,
                   sendSpacing, ivars>>

Next ==
    \/ Advance
    \/ \E k \in Keys : InputKey(k)
    \/ InputEnd
    \/ TickerSend
    \/ TickerWake
    \/ Draw
    \/ LoopNext

Spec == Init /\ [][Next]_vars

\* the CPU graph run with stdin at its end: Ticks only
InitWidget == \E n \in 1..MaxCores : InitWith("cpu", n, "returned")
NextWidget == Advance \/ TickerSend \/ TickerWake \/ Draw \/ LoopNext
SpecWidget == InitWidget /\ [][NextWidget]_vars

\* ====================================================== properties
Cores == 1..Len(stats)

\* C1: after successful update() calls every series of the widget has the
\* same length, and the scroll of an update() removes from every other
\* series exactly as many samples as from the reference series stats[0].
C1_CoordinatedEviction ==
    pc # "panicked" =>
        \A i \in Cores : /\ Len(stats[i].data) = Len(stats[1].data)
                          /\ evicted[i] = evicted[1]
\* an update() of a widget with several series has scrolled
C1_Witness == Len(stats) >= 2 /\ lastUpdate = "ok" /\ evicted[1] = 1

\* C2: a failed read during the update() of a Tick is not fatal: the loop
\* is still running and the error is the message of the next draw.
C2_FailedReadNonFatal ==
    lastUpdate \in {"err", "panic"} => (pc = "draw" /\ err_msg # None)

\* C3: when the read of a sub-metric fails, update() reports an error and
\* every series holds exactly the samples it held before the tick.
C3_FailedReadLeavesSeries ==
    lastUpdate \in {"err", "panic"} => (lastUpdate = "err" /\ ~seriesChanged)

\* C4: after a Tick whose update() succeeded no error overlay is pending.
C4_OverlayClearedOnSuccess ==
    lastUpdate = "ok" => err_msg = None

\* C5: once next() has returned Input(exit_key) the loop is terminated, and
\* neither a draw nor an update() happens afterwards, whatever is queued.
C5_ExitPropagation ==
    exitSeen => (pc = "terminated" /\ ~afterExit)
\* the exit key was received with events still queued behind it
C5_Witness == exitSeen /\ queue # << >>

\* C6: no step increases y_min or decreases y_max.
C6_YBoundsMonotone ==
    [][min_y(m') <= min_y(m) /\ max_y(m') >= max_y(m)]_vars
\* both bounds have been set, and one of them moved again later
C6_Witness == lastUpdate = "ok" /\ min_y(m) < max_y(m)

\* C7: after a successful update() every reading appended in that tick
\* lies inside the y-range: y_min <= reading <= y_max.
C7_ReadingInsideYRange ==
    lastUpdate = "ok" =>
        \A i \in Cores : min_y(m) <= stats[i].cur_freq /\ stats[i].cur_freq <= max_y(m)

\* C8: the visible x-span keeps the width it was created with.
C8_XWindowConstant ==
    max_x(m) - min_x(m) = X_AXIS_MAX - X_AXIS_MIN
\* the x axis has been moved by a scroll
C8_Witness == lastUpdate = "ok" /\ evicted[1] = 1 /\ min_x(m) > X_AXIS_MIN

\* C9: next() returns the events in the order they were sent, whatever
\* their kind.
C9_EventOrder == orderOk
\* next() has returned an Input while a Tick sent after it waits, and the
\* other way round
C9_Witness ==
    /\ queue # << >>
    /\ \/ handled = "input" /\ Head(queue).type = "Tick"
       \/ handled = "tick" /\ Head(queue).type = "Input"

\* C10 as stated: with no input, two consecutive Ticks returned by next()
\* are at least tick_rate apart.
C10_TickSpacingObserved ==
    keys_typed = 0 => recvSpacing # "short"
\* C10 amended: two consecutive Ticks are sent at least tick_rate apart.
C10_TickSpacingSent == sendSpacing # "short"
\* two Ticks were sent, and returned by next() less than tick_rate apart
C10_Witness == keys_typed = 0 /\ sendSpacing = "ok" /\ recvSpacing = "short"

\* ------------------------------------------- the feed of one sample per second
\* update() is called at t = 0, 1, .., FeedEnd, every core at a steady
\* frequency; each call returns at once or takes the whole second
FeedEnd == X_AXIS_MAX + Overrun
UnitUpdate ==
    /\ now <= FeedEnd
    /\ \E dur \in {0, 1} :
         LET u == update(stats, m, start_time, last_time, now, dur,
                         [i \in 1..Len(stats) |-> MinFreq])
         IN /\ stats' = u.stats
            /\ m' = u.m
            /\ last_time' = u.last_time
            /\ evicted' = u.evicted
            /\ popEmpty' = u.pop_empty
            /\ shifted' = u.shifted
            /\ removedAt' = u.removed
            /\ seriesChanged' = (Datas(u.stats) # Datas(stats))
    /\ now' = now + 1
    /\ handled' = "tick"
    /\ lastUpdate' = "ok"
    /\ UNCHANGED <<widget, start_time, queue, input_pc, keys_typed, ticker_pc, wake, pc,
                   err_msg, overlay, exitSeen, afterExit, inflight, orderOk, lastTickSend,
                   sendSpacing, lastTickRecv, recvSpacing, ivars>>
InitUnit == \E n \in 1..MaxCores : InitWith("cpu", n, "returned")
NextUnit == UnitUpdate
SpecUnit == InitUnit /\ [][NextUnit]_vars
FeedDone == now = FeedEnd + 1
Earliest == Head(stats[1].data)[1]

\* C11 as stated: after the feed t = 0..35 the earliest sample retained has
\* a time strictly greater than 5.
C11_EarliestAfterFive ==
    FeedDone => Earliest > Overrun
\* C11 amended: the earliest sample retained has time 5 at most, and exactly
\* 5 when the monitor's clock has counted the whole feed.
C11_EarliestAtFive ==
    FeedDone => /\ Earliest <= Overrun
                /\ time(m) = FeedEnd => Earliest = Overrun
\* the feed is over and the monitor's clock has counted all of it
C11_Witness == FeedDone /\ time(m) = FeedEnd /\ Earliest = Overrun

\* C12: with one sample per unit of time a series holds at most
\* window_width + 1 samples after every update().
C12_WindowBound ==
    lastUpdate = "ok" =>
        \A i \in Cores : Len(stats[i].data) <= (X_AXIS_MAX - X_AXIS_MIN) + 1

\* C13 as stated: every series is strictly ascending by time, with no
\* duplicate times.
C13_StrictlyAscending ==
    \A i \in Cores : \A j \in 1..(Len(stats[i].data) - 1) :
        stats[i].data[j][1] < stats[i].data[j + 1][1]
\* C13 amended: every series is ascending by time; two samples may carry
\* the same time.
C13_Ascending ==
    \A i \in Cores : \A j \in 1..(Len(stats[i].data) - 1) :
        stats[i].data[j][1] <= stats[i].data[j + 1][1]
\* a series that has scrolled holds two samples of the same time before a later one
C13_Witness ==
    /\ min_x(m) > X_AXIS_MIN
    /\ \E j \in 1..(Len(stats[1].data) - 2) :
         /\ stats[1].data[j][1] = stats[1].data[j + 1][1]
         /\ stats[1].data[j + 1][1] < stats[1].data[j + 2][1]

\* ------------------------------------------------------ the input thread
\* every key read was sent as Input, but the one whose send failed
ForwardsAll ==
    keys_typed = keys_sent + (IF input_why = "send_failed" THEN 1 ELSE 0)
\* C14: the input thread forwards every key it reads, the exit key
\* included, and never acts on a key being the exit key; only the consumer
\* does.
C14_NoInterpretation ==
    ForwardsAll /\ input_why # "exit_key"
\* C14 amended: the input thread forwards every key it reads while the
\* receiver lives, the exit key included; it compares each forwarded key
\* with the exit key and returns after forwarding that one; the loop
\* terminates only on an exit key returned by next().
C14_ForwardsThenReturns ==
    /\ ForwardsAll
    /\ input_why = "exit_key" => input_pc = "returned" /\ keys_sent >= 1
    /\ pc = "terminated" => exitSeen
\* the input thread returned on the exit key it forwarded, and the loop
\* then terminated on it
C14_Witness ==
    input_why = "exit_key" /\ keys_sent = keys_typed /\ keys_sent = MaxKeys /\ pc = "terminated"

\* ----------------------------------------------------- the ticker thread
\* C15: the ticker sleeps before each Tick it sends, the first included: no
\* Tick is sent earlier than one tick_rate after the Events is created.
C15_SleepBeforeSend ==
    lastTickSend >= 0 => lastTickSend >= TickRate
\* C15 amended: the ticker sends its first Tick with no sleep before it,
\* sleeps one tick_rate after every Tick it sent, and exits only on a send
\* that failed because the receiver is gone.
C15_SleepAfterSend ==
    /\ lastTickSend < 0 => ticker_pc \in {"send", "exited"}
    /\ ticker_pc = "sleep" => wake = lastTickSend + TickRate
    /\ (ticker_pc = "send" /\ lastTickSend >= 0) => now >= lastTickSend + TickRate
    /\ ticker_pc = "exited" => RxDropped
\* the first Tick was sent at the creation of the Events, and the ticker has
\* slept and is about to send the second
C15_Witness ==
    ticker_pc = "send" /\ lastTickSend = 0 /\ now >= TickRate

\* ------------------------------------------------------- the scroll step
\* the last update() returned after a scroll step
Scrolled == lastUpdate = "ok" /\ removedAt >= 0
\* C16: on every scroll step the x axis advances by exactly the time of the
\* new earliest sample of the reference series minus the time of the sample
\* evicted from it; no scroll step evicts without advancing the x axis.
C16_ScrollAdvances ==
    Scrolled => /\ stats[1].data # << >>
                /\ shifted = Head(stats[1].data)[1] - removedAt

\* C17: update() never pops an empty series: when the scroll condition
\* holds, every series holds at least one sample before the pop, and the
\* scroll removes exactly one sample from each.
C17_NoPopOfEmpty ==
    /\ ~popEmpty
    /\ Scrolled => \A i \in Cores : evicted[i] = 1
\* the scroll popped series that held one sample each, on every core
C17_Witness ==
    Scrolled /\ Len(stats) = MaxCores /\ \A i \in Cores : stats[i].data = << >>

\* ------------------------------------------------- progress of the threads
\* The clock moves on, the ticker thread and the loop are scheduled.
FairSpec ==
    /\ Init /\ [][Next]_vars
    /\ WF_vars(Advance) /\ WF_vars(TickerSend) /\ WF_vars(TickerWake)
    /\ WF_vars(Draw) /\ WF_vars(LoopNext)
\* the sleep of the ticker ends within the time the clock covers
WakesInTime == ticker_pc = "sleep" => wake <= MaxTime
\* next() fails: no event is queued and every sender is gone
ChannelClosed == pc = "next" /\ queue = << >> /\ SendersGone

\* C18: while the loop runs the ticker has not exited, so next() never
\* fails on a closed channel, and every call of next() returns an event.
C18_NextReturns ==
    /\ [](Running => ticker_pc # "exited")
    /\ [](~ChannelClosed)
    /\ (pc = "next" /\ WakesInTime) ~> (pc # "next")
\* the loop waits in next() on an empty channel, the input thread gone
C18_Witness ==
    pc = "next" /\ queue = << >> /\ input_pc = "returned" /\ ticker_pc = "sleep"

\* C19: once the loop has terminated on the exit key, the input thread has
\* returned after forwarding that key and sends no Input any more, and the
\* ticker exits at its next send.
C19_ProducersTerminate ==
    /\ [](exitSeen => input_pc = "returned" /\ input_why = "exit_key")
    /\ [][input_why = "exit_key" => keys_sent' = keys_sent /\ keys_typed' = keys_typed]_vars
    /\ (pc = "terminated" /\ WakesInTime) ~> (ticker_pc = "exited")
\* the loop has terminated on the exit key and both threads are gone
C19_Witness ==
    pc = "terminated" /\ exitSeen /\ input_why = "exit_key" /\ ticker_pc = "exited"

\* ------------------------------------------------------- time alignment
\* the times of the samples of a series, in order
Times(data) == [j \in 1..Len(data) |-> data[j][1]]
\* C20: after updates that returned, all series hold samples at the same
\* times, position by position.
C20_TimeAlignment ==
    pc # "panicked" => \A i \in Cores : Times(stats[i].data) = Times(stats[1].data)
\* two cores with two samples each, at different frequencies, after a scroll
C20_Witness ==
    /\ Len(stats) >= 2
    /\ Scrolled
    /\ Len(stats[2].data) >= 2
    /\ stats[1].data # stats[2].data
====
